---------------------------- MODULE Spec2Model ----------------------------
(***************************************************************************)
(* Model of mnt-rs (src/src/parse.rs): the /proc/mounts line parser, the   *)
(* MountIter iterator with its optional Search predicate, the draining     *)
(* queries built on it and VecMountEntry::remove_overlaps; and of the      *)
(* exact-path get_mount of src/src/lib.rs.                                 *)
(*                                                                         *)
(* Text is modelled at character level: a string is a sequence of          *)
(* one-character strings, so that trimming, tokenising, splitting the      *)
(* option list, integer parsing and path comparison are computed here the  *)
(* way the code computes them.                                             *)
(***************************************************************************)
EXTENDS Integers, Sequences, FiniteSets, TLC

VARIABLES
    lines,    \* the line source behind Lines<T>: a sequence of read results
    nb,       \* the Enumerate counter: number of lines consumed so far
    search,   \* MountIter.search : Option<Search>
    item,     \* the value returned by the last call of MountIter::next
    op,       \* the operation performed last
    from,     \* the value of nb when the last operation started
    toks,     \* the tokens the single line under parse was joined from
    res,      \* the result of the last MountEntry::from_str
    target,   \* the path argument of the last query
    ret,      \* the result of the last draining query
    list,     \* the Vec<MountEntry> remove_overlaps works on
    excl,     \* exclude_files
    prev,     \* the Vec<MountEntry> handed to the last remove_overlaps
    kept,     \* positions of prev that the last remove_overlaps retained
    runs,     \* number of remove_overlaps calls made
    matched,  \* the result of the last call of matches
    submounts, \* the result of the last get_submounts_from
    writable, \* the writable argument of the last get_mount_writable
    opened    \* whether the last query could open /proc/mounts

vars == <<lines, nb, search, item, op, from, toks, res, target, ret,
          list, excl, prev, kept, runs, matched, submounts, writable,
          opened>>

---------------------------------------------------------------------------
(* Characters and strings                                                  *)

SP == " "
TAB == "\t"

\* str::trim strips Unicode White_Space; these are the ones a line can hold
WhiteSpace == {SP, TAB, "\r", "\n"}

RECURSIVE TrimStart(_)
TrimStart(s) ==
    IF s # <<>> /\ Head(s) \in WhiteSpace THEN TrimStart(Tail(s)) ELSE s

RECURSIVE TrimEnd(_)
TrimEnd(s) ==
    IF s # <<>> /\ s[Len(s)] \in WhiteSpace
    THEN TrimEnd(SubSeq(s, 1, Len(s) - 1))
    ELSE s

Trim(s) == TrimEnd(TrimStart(s))

\* str::split: the pieces between separator characters, empty ones included;
\* SplitFrom gives the pieces of s from position i on
RECURSIVE SplitFrom(_, _, _)
SplitFrom(s, seps, i) ==
    LET hits == {j \in i..Len(s) : s[j] \in seps}
    IN  IF hits = {} THEN <<SubSeq(s, i, Len(s))>>
        ELSE LET j == CHOOSE h \in hits : \A g \in hits : h <= g
             IN  <<SubSeq(s, i, j - 1)>> \o SplitFrom(s, seps, j + 1)

Split(s, seps) == SplitFrom(s, seps, 1)

\* str::split_terminator: as split, without a final empty piece
SplitTerminator(s, seps) ==
    LET p == Split(s, seps)
    IN  IF p[Len(p)] = <<>> THEN SubSeq(p, 1, Len(p) - 1) ELSE p

\* Iterator::filter(|s| s != &"")
RECURSIVE NonEmpty(_)
NonEmpty(ps) ==
    IF ps = <<>> THEN <<>>
    ELSE IF Head(ps) = <<>> THEN NonEmpty(Tail(ps))
    ELSE <<Head(ps)>> \o NonEmpty(Tail(ps))

\* the token iterator of MountEntry::from_str
\* a variant that keeps the empty pieces between adjacent separators
TokensUnfiltered(line) == SplitTerminator(Trim(line), {SP, TAB})

Tokens(line) == NonEmpty(SplitTerminator(Trim(line), {SP, TAB}))

---------------------------------------------------------------------------
(* Integer parsing: <i32 as FromStr>::from_str                             *)

I32Max == 2147483647
I32Min == (-I32Max) - 1

Digits == {"0", "1", "2", "3", "4", "5", "6", "7", "8", "9"}

DigitVal(c) ==
    CASE c = "0" -> 0 [] c = "1" -> 1 [] c = "2" -> 2 [] c = "3" -> 3
      [] c = "4" -> 4 [] c = "5" -> 5 [] c = "6" -> 6 [] c = "7" -> 7
      [] c = "8" -> 8 [] c = "9" -> 9

IntErr == [ok |-> FALSE, val |-> 0]
IntOk(v) == [ok |-> TRUE, val |-> v]

\* positive numbers: checked_mul(10) then checked_add(digit)
RECURSIVE AccPos(_, _, _)
AccPos(s, i, acc) ==
    IF i > Len(s) THEN IntOk(acc)
    ELSE IF s[i] \notin Digits THEN IntErr
    ELSE IF acc > I32Max \div 10 THEN IntErr
    ELSE IF acc * 10 > I32Max - DigitVal(s[i]) THEN IntErr
    ELSE AccPos(s, i + 1, acc * 10 + DigitVal(s[i]))

\* negative numbers: checked_mul(10) then checked_sub(digit)
RECURSIVE AccNeg(_, _, _)
AccNeg(s, i, acc) ==
    IF i > Len(s) THEN IntOk(acc)
    ELSE IF s[i] \notin Digits THEN IntErr
    ELSE IF acc < -(I32Max \div 10) THEN IntErr
    ELSE IF acc * 10 < I32Min + DigitVal(s[i]) THEN IntErr
    ELSE AccNeg(s, i + 1, acc * 10 - DigitVal(s[i]))

ParseI32(s) ==
    IF s = <<>> THEN IntErr
    ELSE IF s[1] = "-"
         THEN IF Len(s) = 1 THEN IntErr ELSE AccNeg(s, 2, 0)
         ELSE AccPos(s, 1, 0)

---------------------------------------------------------------------------
(* Paths: std::path::Path components, equality and starts_with             *)

ROOT == <<"/">>
CURDIR == <<".">>

HasRoot(p) == p # <<>> /\ p[1] = "/"

\* Path::components: the root, then the non-empty pieces; a "." piece is
\* kept only when it leads a relative path
RECURSIVE NormalParts(_, _, _)
NormalParts(ps, i, rooted) ==
    IF i > Len(ps) THEN <<>>
    ELSE IF ps[i] = <<>> THEN NormalParts(ps, i + 1, rooted)
    ELSE IF ps[i] = CURDIR /\ (rooted \/ i > 1) THEN NormalParts(ps, i + 1, rooted)
    ELSE <<ps[i]>> \o NormalParts(ps, i + 1, rooted)

Components(p) ==
    (IF HasRoot(p) THEN <<ROOT>> ELSE <<>>)
        \o NormalParts(Split(p, {"/"}), 1, HasRoot(p))

\* PartialEq for Path / PathBuf compares components
PathEq(p, q) == Components(p) = Components(q)

\* Path::starts_with(base): base's components are a prefix of self's
StartsWith(p, base) ==
    LET cp == Components(p)
        cb == Components(base)
    IN  /\ Len(cb) <= Len(cp)
        /\ SubSeq(cp, 1, Len(cb)) = cb

\* Path::is_relative
IsRelative(p) == ~HasRoot(p)

---------------------------------------------------------------------------
(* Mount options: MntOps and its FromStr                                   *)

K_atime == <<"a", "t", "i", "m", "e">>
K_noatime == <<"n", "o", "a", "t", "i", "m", "e">>
K_diratime == <<"d", "i", "r", "a", "t", "i", "m", "e">>
K_nodiratime == <<"n", "o", "d", "i", "r", "a", "t", "i", "m", "e">>
K_relatime == <<"r", "e", "l", "a", "t", "i", "m", "e">>
K_norelatime == <<"n", "o", "r", "e", "l", "a", "t", "i", "m", "e">>
K_dev == <<"d", "e", "v">>
K_nodev == <<"n", "o", "d", "e", "v">>
K_exec == <<"e", "x", "e", "c">>
K_noexec == <<"n", "o", "e", "x", "e", "c">>
K_suid == <<"s", "u", "i", "d">>
K_nosuid == <<"n", "o", "s", "u", "i", "d">>
K_rw == <<"r", "w">>
K_ro == <<"r", "o">>

Toggle(name, on) == [op |-> name, on |-> on, extra |-> <<>>]
Extra(token) == [op |-> "Extra", on |-> FALSE, extra |-> token]

\* MntOps::from_str: never fails
MntOpsFromStr(token) ==
    CASE token = K_atime -> Toggle("Atime", TRUE)
      [] token = K_noatime -> Toggle("Atime", FALSE)
      [] token = K_diratime -> Toggle("DirAtime", TRUE)
      [] token = K_nodiratime -> Toggle("DirAtime", FALSE)
      [] token = K_relatime -> Toggle("RelAtime", TRUE)
      [] token = K_norelatime -> Toggle("RelAtime", FALSE)
      [] token = K_dev -> Toggle("Dev", TRUE)
      [] token = K_nodev -> Toggle("Dev", FALSE)
      [] token = K_exec -> Toggle("Exec", TRUE)
      [] token = K_noexec -> Toggle("Exec", FALSE)
      [] token = K_suid -> Toggle("Suid", TRUE)
      [] token = K_nosuid -> Toggle("Suid", FALSE)
      [] token = K_rw -> Toggle("Write", TRUE)
      [] token = K_ro -> Toggle("Write", FALSE)
      [] OTHER -> Extra(token)

---------------------------------------------------------------------------
(* MountEntry, LineError and MountEntry::from_str                          *)

PassNone == [some |-> FALSE, val |-> 0]
PassSome(n) == [some |-> TRUE, val |-> n]

NoEntry ==
    [spec |-> <<>>, file |-> <<>>, vfstype |-> <<>>, mntops |-> <<>>,
     freq |-> "Ignore", passno |-> PassNone]

LineError(kind, tok) == [kind |-> kind, tok |-> tok]
NoError == LineError("none", <<>>)

Ok(e) == [ok |-> TRUE, entry |-> e, err |-> NoError]
Err(e) == [ok |-> FALSE, entry |-> NoEntry, err |-> e]

\* the value of one field, or the error that ends the parse
FieldOk(v) == [ok |-> TRUE, val |-> v, err |-> NoError]
FieldErr(e) == [ok |-> FALSE, val |-> <<>>, err |-> e]

\* a variant that accepts any path
ParseFileAny(file) == FieldOk(file)

\* file: PathBuf::from(file), rejected when relative
ParseFile(file) ==
    IF IsRelative(file)
    THEN FieldErr(LineError("InvalidFilePath", file))
    ELSE FieldOk(file)

\* a variant that splits with split instead of split_terminator
ParseMntopsSplit(tok) ==
    LET subs == Split(tok, {","})
    IN  [i \in 1..Len(subs) |-> MntOpsFromStr(subs[i])]

\* mntops: split_terminator(',') and MntOps::from_str on every piece
ParseMntops(tok) ==
    LET subs == SplitTerminator(tok, {","})
    IN  [i \in 1..Len(subs) |-> MntOpsFromStr(subs[i])]

\* a variant that takes every non-zero integer for Backup
ParseFreqNonZero(freq) ==
    LET n == ParseI32(freq)
    IN  IF n.ok /\ n.val = 0 THEN FieldOk("Ignore")
        ELSE IF n.ok THEN FieldOk("Backup")
        ELSE FieldErr(LineError("InvalidFreq", freq))

\* freq: Ok(0) => Ignore, Ok(1) => Backup, _ => InvalidFreq
ParseFreq(freq) ==
    LET n == ParseI32(freq)
    IN  IF n.ok /\ n.val = 0 THEN FieldOk("Ignore")
        ELSE IF n.ok /\ n.val = 1 THEN FieldOk("Backup")
        ELSE FieldErr(LineError("InvalidFreq", freq))

\* a variant that wraps every integer in Some
ParsePassnoAnyInt(passno) ==
    LET n == ParseI32(passno)
    IN  IF n.ok THEN FieldOk(PassSome(n.val))
        ELSE FieldErr(LineError("InvalidPassno", passno))

\* passno: Ok(0) => None, Ok(f) if f > 0 => Some(f), _ => InvalidPassno
ParsePassno(passno) ==
    LET n == ParseI32(passno)
    IN  IF n.ok /\ n.val = 0 THEN FieldOk(PassNone)
        ELSE IF n.ok /\ n.val > 0 THEN FieldOk(PassSome(n.val))
        ELSE FieldErr(LineError("InvalidPassno", passno))

\* a variant that looks at passno before freq
FromTokensPassnoFirst(t) ==
    IF Len(t) < 1 THEN Err(LineError("MissingSpec", <<>>))
    ELSE IF Len(t) < 2 THEN Err(LineError("MissingFile", <<>>))
    ELSE IF ~ParseFile(t[2]).ok THEN Err(ParseFile(t[2]).err)
    ELSE IF Len(t) < 3 THEN Err(LineError("MissingVfstype", <<>>))
    ELSE IF Len(t) < 4 THEN Err(LineError("MissingMntops", <<>>))
    ELSE IF Len(t) < 6 THEN Err(LineError("MissingPassno", <<>>))
    ELSE IF ~ParsePassno(t[6]).ok THEN Err(ParsePassno(t[6]).err)
    ELSE IF ~ParseFreq(t[5]).ok THEN Err(ParseFreq(t[5]).err)
    ELSE Ok([spec |-> t[1],
             file |-> ParseFile(t[2]).val,
             vfstype |-> t[3],
             mntops |-> ParseMntops(t[4]),
             freq |-> ParseFreq(t[5]).val,
             passno |-> ParsePassno(t[6]).val])

\* the struct expression of from_str: fields in order, try! on each
FromTokens(t) ==
    IF Len(t) < 1 THEN Err(LineError("MissingSpec", <<>>))
    ELSE IF Len(t) < 2 THEN Err(LineError("MissingFile", <<>>))
    ELSE IF ~ParseFile(t[2]).ok THEN Err(ParseFile(t[2]).err)
    ELSE IF Len(t) < 3 THEN Err(LineError("MissingVfstype", <<>>))
    ELSE IF Len(t) < 4 THEN Err(LineError("MissingMntops", <<>>))
    ELSE IF Len(t) < 5 THEN Err(LineError("MissingFreq", <<>>))
    ELSE IF ~ParseFreq(t[5]).ok THEN Err(ParseFreq(t[5]).err)
    ELSE IF Len(t) < 6 THEN Err(LineError("MissingPassno", <<>>))
    ELSE IF ~ParsePassno(t[6]).ok THEN Err(ParsePassno(t[6]).err)
    ELSE Ok([spec |-> t[1],
             file |-> ParseFile(t[2]).val,
             vfstype |-> t[3],
             mntops |-> ParseMntops(t[4]),
             freq |-> ParseFreq(t[5]).val,
             passno |-> ParsePassno(t[6]).val])

from_str(line) == FromTokens(Tokens(line))

---------------------------------------------------------------------------
(* Search and matches                                                      *)

SearchOf(kind, str, ops, freq, passno) ==
    [kind |-> kind, str |-> str, ops |-> ops, freq |-> freq, passno |-> passno]

SearchSpec(str) == SearchOf("Spec", str, <<>>, "Ignore", PassNone)
SearchFile(path) == SearchOf("File", path, <<>>, "Ignore", PassNone)
SearchVfstype(str) == SearchOf("Vfstype", str, <<>>, "Ignore", PassNone)
SearchMntopts(ops) == SearchOf("Mntopts", <<>>, ops, "Ignore", PassNone)
SearchFreq(freq) == SearchOf("Freq", <<>>, <<>>, freq, PassNone)
SearchPassno(passno) == SearchOf("Passno", <<>>, <<>>, "Ignore", passno)

NoSearch == [some |-> FALSE, s |-> SearchSpec(<<>>)]
SomeSearch(s) == [some |-> TRUE, s |-> s]

\* collect::<HashSet<_>>()
HashSet(seq) == {seq[i] : i \in 1..Len(seq)}

\* a variant that compares the option lists as sequences
matchesSequence(m, s) ==
    CASE s.kind = "Spec" -> s.str = m.spec
      [] s.kind = "File" -> PathEq(s.str, m.file)
      [] s.kind = "Vfstype" -> s.str = m.vfstype
      [] s.kind = "Mntopts" -> s.ops = m.mntops
      [] s.kind = "Freq" -> s.freq = m.freq
      [] s.kind = "Passno" -> s.passno = m.passno

\* matches(m, search)
matches(m, s) ==
    CASE s.kind = "Spec" -> s.str = m.spec
      [] s.kind = "File" -> PathEq(s.str, m.file)
      [] s.kind = "Vfstype" -> s.str = m.vfstype
      [] s.kind = "Mntopts" -> HashSet(s.ops) \subseteq HashSet(m.mntops)
      [] s.kind = "Freq" -> s.freq = m.freq
      [] s.kind = "Passno" -> s.passno = m.passno

---------------------------------------------------------------------------
(* The line source and MountIter                                           *)

\* one item of Lines<T>: io::Result<String>.  A failed read takes one position
\* of the source like any line (Enumerate counts it), and Lines polls the
\* reader again on the next call
Line(text) == [readok |-> TRUE, text |-> text]
ReadFailure == [readok |-> FALSE, text |-> <<>>]

\* ParseError: "Failed at line {nb}: {e}" or the wrapped io::Error
NoParseError == [src |-> "none", nb |-> 0, err |-> NoError]
ParseErrorLine(n, e) == [src |-> "line", nb |-> n, err |-> e]
ParseErrorIo == [src |-> "io", nb |-> 0, err |-> NoError]

\* the text of the line that the message of a ParseError holds: Display for
\* LineError writes the field's value for the Invalid kinds, nothing else
Quoted(e) == e.err.tok

\* Option<Result<MountEntry, ParseError>>
NotCalled == [kind |-> "NotCalled", entry |-> NoEntry, perr |-> NoParseError]
ItemOk(m) == [kind |-> "Ok", entry |-> m, perr |-> NoParseError]
ItemErr(e) == [kind |-> "Err", entry |-> NoEntry, perr |-> e]
ItemEnd == [kind |-> "End", entry |-> NoEntry, perr |-> NoParseError]

Step(n, it) == [nb |-> n, item |-> it]

\* a variant that stops for good after a failed read
RECURSIVE NextFused(_, _, _)
NextFused(ls, srch, i) ==
    IF i >= Len(ls) THEN Step(i, ItemEnd)
    ELSE IF i > 0 /\ ~ls[i].readok THEN Step(i, ItemEnd)
    ELSE IF ~ls[i + 1].readok THEN Step(i + 1, ItemErr(ParseErrorIo))
    ELSE LET r == from_str(ls[i + 1].text)
         IN  IF ~r.ok THEN Step(i + 1, ItemErr(ParseErrorLine(i, r.err)))
             ELSE IF srch.some /\ ~matches(r.entry, srch.s)
                  THEN NextFused(ls, srch, i + 1)
                  ELSE Step(i + 1, ItemOk(r.entry))

\* a variant where the predicate loop also passes over lines that fail
RECURSIVE NextSkipErrors(_, _, _)
NextSkipErrors(ls, srch, i) ==
    IF i >= Len(ls) THEN Step(i, ItemEnd)
    ELSE IF ~ls[i + 1].readok THEN Step(i + 1, ItemErr(ParseErrorIo))
    ELSE LET r == from_str(ls[i + 1].text)
         IN  IF ~r.ok
             THEN IF srch.some THEN NextSkipErrors(ls, srch, i + 1)
                  ELSE Step(i + 1, ItemErr(ParseErrorLine(i, r.err)))
             ELSE IF srch.some /\ ~matches(r.entry, srch.s)
                  THEN NextSkipErrors(ls, srch, i + 1)
                  ELSE Step(i + 1, ItemOk(r.entry))

\* MountIter::next with i lines consumed before the call: the loop over
\* self.lines.next(); the result and the number of lines consumed after it
\* a variant that numbers the lines from one
RECURSIVE NextOneBased(_, _, _)
NextOneBased(ls, srch, i) ==
    IF i >= Len(ls) THEN Step(i, ItemEnd)
    ELSE IF ~ls[i + 1].readok THEN Step(i + 1, ItemErr(ParseErrorIo))
    ELSE LET r == from_str(ls[i + 1].text)
         IN  IF ~r.ok THEN Step(i + 1, ItemErr(ParseErrorLine(i + 1, r.err)))
             ELSE IF srch.some /\ ~matches(r.entry, srch.s)
                  THEN NextOneBased(ls, srch, i + 1)
                  ELSE Step(i + 1, ItemOk(r.entry))

\* a variant that reads the line source to its end before it answers
RECURSIVE NextEager(_, _, _)
NextEager(ls, srch, i) ==
    IF i >= Len(ls) THEN Step(i, ItemEnd)
    ELSE IF ~ls[i + 1].readok THEN Step(Len(ls), ItemErr(ParseErrorIo))
    ELSE LET r == from_str(ls[i + 1].text)
         IN  IF ~r.ok THEN Step(Len(ls), ItemErr(ParseErrorLine(i, r.err)))
             ELSE IF srch.some /\ ~matches(r.entry, srch.s)
                  THEN NextEager(ls, srch, i + 1)
                  ELSE Step(Len(ls), ItemOk(r.entry))

RECURSIVE NextFrom(_, _, _)
NextFrom(ls, srch, i) ==
    IF i >= Len(ls) THEN Step(i, ItemEnd)
    ELSE IF ~ls[i + 1].readok THEN Step(i + 1, ItemErr(ParseErrorIo))
    ELSE LET r == from_str(ls[i + 1].text)
         IN  IF ~r.ok THEN Step(i + 1, ItemErr(ParseErrorLine(i, r.err)))
             ELSE IF srch.some /\ ~matches(r.entry, srch.s)
                  THEN NextFrom(ls, srch, i + 1)
                  ELSE Step(i + 1, ItemOk(r.entry))

---------------------------------------------------------------------------
(* Draining queries                                                        *)

\* Result<Option<MountEntry>, ParseError>
NoRet == [kind |-> "NotCalled", some |-> FALSE, entry |-> NoEntry,
          perr |-> NoParseError]
RetOk(o) == [kind |-> "Ok", some |-> o.some, entry |-> o.entry,
             perr |-> NoParseError]
RetErr(e) == [kind |-> "Err", some |-> FALSE, entry |-> NoEntry, perr |-> e]

\* Result<Vec<MountEntry>, ParseError>
NoSubs == [kind |-> "NotCalled", list |-> <<>>, perr |-> NoParseError]
SubsOk(l) == [kind |-> "Ok", list |-> l, perr |-> NoParseError]
SubsErr(e) == [kind |-> "Err", list |-> <<>>, perr |-> e]

None == [some |-> FALSE, entry |-> NoEntry]
Some(m) == [some |-> TRUE, entry |-> m]

Drained(n, r) == [nb |-> n, ret |-> r]

\* a variant that replaces the answer only by an entry at least as deep
RECURSIVE GetMountLoopDeepest(_, _, _, _, _)
GetMountLoopDeepest(ls, srch, i, tgt, acc) ==
    LET r == NextFrom(ls, srch, i)
    IN  CASE r.item.kind = "End" -> Drained(r.nb, RetOk(acc))
          [] r.item.kind = "Err" -> Drained(r.nb, RetErr(r.item.perr))
          [] r.item.kind = "Ok" ->
                IF /\ StartsWith(tgt, r.item.entry.file)
                   /\ (acc.some => Len(Components(acc.entry.file))
                                      <= Len(Components(r.item.entry.file)))
                THEN GetMountLoopDeepest(ls, srch, r.nb, tgt,
                                         Some(r.item.entry))
                ELSE GetMountLoopDeepest(ls, srch, r.nb, tgt, acc)

\* get_mount_from: for mount in iter { ... ret = Some(m) ... }
RECURSIVE GetMountLoop(_, _, _, _, _)
GetMountLoop(ls, srch, i, tgt, acc) ==
    LET r == NextFrom(ls, srch, i)
    IN  CASE r.item.kind = "End" -> Drained(r.nb, RetOk(acc))
          [] r.item.kind = "Err" -> Drained(r.nb, RetErr(r.item.perr))
          [] r.item.kind = "Ok" ->
                IF StartsWith(tgt, r.item.entry.file)
                THEN GetMountLoop(ls, srch, r.nb, tgt, Some(r.item.entry))
                ELSE GetMountLoop(ls, srch, r.nb, tgt, acc)

get_mount_from(tgt, ls, srch, i) == GetMountLoop(ls, srch, i, tgt, None)

\* get_mount(target), with the outcome of File::open
get_mount(tgt, ls, openok) ==
    IF openok THEN get_mount_from(tgt, ls, NoSearch, 0)
    ELSE Drained(0, RetErr(ParseErrorIo))

\* Option<MountEntry>
RetOption(o) ==
    [kind |-> "Option", some |-> o.some, entry |-> o.entry,
     perr |-> NoParseError]

\* m.mntops.contains(&o)
Contains(ops, o) == \E k \in 1..Len(ops) : ops[k] = o

\* a variant that does not look at the options
WritableMatchAny(found, w) ==
    IF found.kind = "Ok" /\ found.some THEN Some(found.entry) ELSE None

\* match get_mount(target) { Ok(Some(m)) => ..., _ => None }
WritableMatch(found, w) ==
    IF found.kind = "Ok" /\ found.some
    THEN IF ~w \/ Contains(found.entry.mntops, Toggle("Write", w))
         THEN Some(found.entry)
         ELSE None
    ELSE None

\* the Option returned, with the lines the lookup consumed
Answered(d, w) == Drained(d.nb, RetOption(WritableMatch(d.ret, w)))

\* get_mount_writable(target, writable)
get_mount_writable(tgt, w, ls, openok) ==
    Answered(get_mount(tgt, ls, openok), w)

\* lib.rs: a variant of get_mount that takes any entry at or above target
RECURSIVE LibGetMountLoopAbove(_, _, _, _)
LibGetMountLoopAbove(ls, i, tgt, acc) ==
    LET r == NextFrom(ls, NoSearch, i)
    IN  CASE r.item.kind = "End" -> Drained(r.nb, RetOk(acc))
          [] r.item.kind = "Err" -> Drained(r.nb, RetErr(r.item.perr))
          [] r.item.kind = "Ok" ->
                IF StartsWith(tgt, r.item.entry.file)
                THEN LibGetMountLoopAbove(ls, r.nb, tgt, Some(r.item.entry))
                ELSE LibGetMountLoopAbove(ls, r.nb, tgt, acc)

\* lib.rs get_mount: for mount in MountIter { if *target == m.file ... };
\* the iterator of lib.rs is MountIter::next without a Search
RECURSIVE LibGetMountLoop(_, _, _, _)
LibGetMountLoop(ls, i, tgt, acc) ==
    LET r == NextFrom(ls, NoSearch, i)
    IN  CASE r.item.kind = "End" -> Drained(r.nb, RetOk(acc))
          [] r.item.kind = "Err" -> Drained(r.nb, RetErr(r.item.perr))
          [] r.item.kind = "Ok" ->
                IF PathEq(tgt, r.item.entry.file)
                THEN LibGetMountLoop(ls, r.nb, tgt, Some(r.item.entry))
                ELSE LibGetMountLoop(ls, r.nb, tgt, acc)

\* lib.rs get_mount(target), with the outcome of File::open
lib_get_mount(tgt, ls, openok) ==
    IF openok THEN LibGetMountLoop(ls, 0, tgt, None)
    ELSE Drained(0, RetErr(ParseErrorIo))

Collected(n, r) == [nb |-> n, ret |-> r]

\* a variant that keeps the entries root is beneath
RECURSIVE SubmountsLoopAbove(_, _, _, _, _)
SubmountsLoopAbove(ls, srch, i, root, acc) ==
    LET r == NextFrom(ls, srch, i)
    IN  CASE r.item.kind = "End" -> Collected(r.nb, SubsOk(acc))
          [] r.item.kind = "Err" -> Collected(r.nb, SubsErr(r.item.perr))
          [] r.item.kind = "Ok" ->
                IF StartsWith(root, r.item.entry.file)
                THEN SubmountsLoopAbove(ls, srch, r.nb, root,
                                        Append(acc, r.item.entry))
                ELSE SubmountsLoopAbove(ls, srch, r.nb, root, acc)

\* get_submounts_from: for mount in iter { ... ret.push(m) ... }
RECURSIVE SubmountsLoop(_, _, _, _, _)
SubmountsLoop(ls, srch, i, root, acc) ==
    LET r == NextFrom(ls, srch, i)
    IN  CASE r.item.kind = "End" -> Collected(r.nb, SubsOk(acc))
          [] r.item.kind = "Err" -> Collected(r.nb, SubsErr(r.item.perr))
          [] r.item.kind = "Ok" ->
                IF StartsWith(r.item.entry.file, root)
                THEN SubmountsLoop(ls, srch, r.nb, root,
                                   Append(acc, r.item.entry))
                ELSE SubmountsLoop(ls, srch, r.nb, root, acc)

get_submounts_from(root, ls, srch, i) == SubmountsLoop(ls, srch, i, root, <<>>)

---------------------------------------------------------------------------
(* VecMountEntry::remove_overlaps                                          *)

\* a variant that ignores exclude_files
IsExcludedNever(file, xs) == FALSE

\* exclude_files.iter().skip_while(|x| file != x).next().is_some()
IsExcluded(file, xs) == \E j \in 1..Len(xs) : PathEq(file, xs[j])

\* a variant that compares with the mount pushed last only
HasOverlapsLast(l, xs, sorted, file) ==
    /\ sorted # <<>>
    /\ ~IsExcluded(l[sorted[Len(sorted)]].file, xs)
    /\ StartsWith(file, l[sorted[Len(sorted)]].file)

\* the 'filter loop: some retained mount, not excluded, is a prefix of file
HasOverlaps(l, xs, sorted, file) ==
    \E j \in 1..Len(sorted) :
        /\ ~IsExcluded(l[sorted[j]].file, xs)
        /\ StartsWith(file, l[sorted[j]].file)

\* the 'list loop over self.into_iter().rev(); sorted holds the positions
\* of the mounts pushed so far
RECURSIVE OverlapLoop(_, _, _, _)
OverlapLoop(l, xs, i, sorted) ==
    IF i < 1 THEN sorted
    ELSE IF PathEq(l[i].file, ROOT) THEN OverlapLoop(l, xs, i - 1, sorted)
    ELSE IF HasOverlaps(l, xs, sorted, l[i].file)
         THEN OverlapLoop(l, xs, i - 1, sorted)
         ELSE OverlapLoop(l, xs, i - 1, Append(sorted, i))

\* a variant that leaves the order of the scan
Unreversed(s) == s

\* sorted.reverse()
Reverse(s) == [j \in 1..Len(s) |-> s[Len(s) + 1 - j]]

\* a variant that forgets the final reverse
KeptPositionsNoReverse(l, xs) == OverlapLoop(l, xs, Len(l), <<>>)

\* positions of l retained by remove_overlaps, in output order
KeptPositions(l, xs) == Reverse(OverlapLoop(l, xs, Len(l), <<>>))

remove_overlaps(l, xs) ==
    LET k == KeptPositions(l, xs) IN [j \in 1..Len(k) |-> l[k[j]]]

---------------------------------------------------------------------------
(* Inputs                                                                  *)

MaxLines == 3
MaxList == 4
MaxRuns == 2

RECURSIVE Join(_, _)
Join(ts, sep) ==
    IF ts = <<>> THEN <<>>
    ELSE IF Len(ts) = 1 THEN ts[1]
    ELSE ts[1] \o sep \o Join(Tail(ts), sep)

SeqsUpTo(S, n) == UNION {[1..k -> S] : k \in 0..n}

\* tokens of the lines handed to the parser
T_sd == <<"s", "d">>
T_fs == <<"f", "s">>
T_slash == <<"/">>
T_a == <<"/", "a">>
T_ab == <<"/", "a", "/", "b">>
T_b == <<"/", "b">>
T_aslash == <<"/", "a", "/">>
T_dotslash == <<".", "/">>
T_foo == <<"f", "o", "o">>
T_none == <<"n", "o", "n", "e">>
T_rw_comma == <<"r", "w", ",">>
T_comma_rw == <<",", "r", "w">>
T_noexec_rw == <<"n", "o", "e", "x", "e", "c", ",", "r", "w">>
T_ro_x_ro == <<"r", "o", ",", "x", ",", "r", "o">>
T_ro_nosuid == <<"r", "o", ",", "n", "o", "s", "u", "i", "d">>
T_all == <<"a", "t", "i", "m", "e", ",", "n", "o", "a", "t", "i", "m", "e", ",", "d", "i", "r", "a", "t", "i", "m", "e", ",", "n", "o", "d", "i", "r", "a", "t", "i", "m", "e", ",", "r", "e", "l", "a", "t", "i", "m", "e", ",", "n", "o", "r", "e", "l", "a", "t", "i", "m", "e", ",", "d", "e", "v", ",", "n", "o", "d", "e", "v", ",", "e", "x", "e", "c", ",", "n", "o", "e", "x", "e", "c", ",", "s", "u", "i", "d", ",", "n", "o", "s", "u", "i", "d", ",", "r", "w", ",", "r", "o">>
T_0 == <<"0">>
T_1 == <<"1">>
T_2 == <<"2">>
T_01 == <<"0", "1">>
T_m0 == <<"-", "0">>
T_m1 == <<"-", "1">>
T_x == <<"x">>
T_1x == <<"1", "x">>
T_max == <<"2", "1", "4", "7", "4", "8", "3", "6", "4", "7">>
T_over == <<"2", "1", "4", "7", "4", "8", "3", "6", "4", "8">>
T_z == <<"z">>
T_t == <<"t">>
T_tmp == <<"t", "m", "p">>
T_abc == <<"/", "a", "/", "b", "/", "c">>

FileToks == {T_slash, T_ab, T_dotslash, T_foo, T_none}
MntopsToks == {K_rw, T_rw_comma, T_comma_rw, T_noexec_rw, T_ro_x_ro, T_all}
FreqToks == {T_0, T_1, T_01, T_2, T_x, T_m1, T_m0}
PassnoToks == {T_0, T_1, T_2, T_m1, T_x, T_1x, T_max, T_over, T_m0}

\* the first k tokens of a seven-token line, for every k
TokLists ==
    {SubSeq(<<T_sd, f, T_fs, m, q, p, T_z>>, 1, k) :
        f \in FileToks, m \in MntopsToks, q \in FreqToks, p \in PassnoToks,
        k \in 0..7}

\* separator, leading and trailing white space
Layouts ==
    {<<<<SP>>, <<>>, <<>>>>,
     <<<<SP, SP>>, <<SP>>, <<TAB>>>>,
     <<<<TAB>>, <<>>, <<SP>>>>,
     <<<<TAB, SP, TAB>>, <<TAB, TAB>>, <<SP, SP>>>>}

Layout(ts, lay) == lay[2] \o Join(ts, lay[1]) \o lay[3]

\* the lines of the mount tables the iterator and the queries run on
L_root == Join(<<T_sd, T_slash, T_fs, K_rw, T_0, T_0>>, <<SP>>)
L_a == Join(<<T_t, T_aslash, T_tmp, K_rw, T_1, T_0>>, <<SP>>)
L_ab == Join(<<T_sd, T_ab, T_fs, T_ro_nosuid, T_0, T_1>>, <<SP>>)
L_swap == Join(<<T_sd, T_none, T_fs, K_rw, T_0, T_0>>, <<SP>>)

TableItems == {Line(L_root), Line(L_a), Line(L_ab), Line(L_swap), ReadFailure}

Targets == {T_abc, T_aslash, T_foo}

\* a second line mounted on /a, and the tables and paths of exact lookups
L_a2 == Join(<<T_sd, T_a, T_fs, T_ro_nosuid, T_0, T_0>>, <<SP>>)

LibItems == {Line(L_a), Line(L_a2), Line(L_ab), Line(L_swap), ReadFailure}

LibTargets == {T_aslash, T_abc}

Roots == {T_slash, T_aslash}

Searches ==
    {SearchSpec(T_sd), SearchFile(T_a), SearchVfstype(T_tmp),
     SearchMntopts(<<Toggle("Write", TRUE)>>), SearchFreq("Ignore"),
     SearchPassno(PassNone)}

\* the mount lists remove_overlaps runs on: entries as the parser makes them
Entry(spec, file) ==
    from_str(Join(<<spec, file, T_fs, K_rw, T_0, T_0>>, <<SP>>)).entry

ListEntries ==
    {Entry(T_sd, T_slash), Entry(T_sd, T_a), Entry(T_t, T_a),
     Entry(T_sd, T_ab), Entry(T_sd, T_b)}

ExcludeLists == {<<>>, <<T_aslash>>, <<T_slash>>, <<T_b, T_a>>, <<T_ab>>}

\* the entries and the predicates matches is applied to
MatchToks ==
    {<<T_sd, f, T_fs, m, q, p>> :
        f \in {T_slash, T_aslash},
        m \in MntopsToks \cup {T_ro_nosuid},
        q \in {T_0, T_1},
        p \in {T_0, T_2}}

MntoptsRequests ==
    {<<>>,
     <<Toggle("Write", TRUE)>>,
     <<Toggle("Write", TRUE), Toggle("Write", TRUE)>>,
     <<Toggle("Write", FALSE)>>,
     <<Toggle("Suid", FALSE), Toggle("Write", FALSE)>>,
     <<Toggle("Write", FALSE), Toggle("Suid", FALSE)>>,
     <<Toggle("Write", TRUE), Toggle("Write", FALSE)>>,
     <<Toggle("Exec", FALSE), Toggle("Write", TRUE)>>,
     <<Toggle("Exec", FALSE), Toggle("Write", TRUE), Toggle("Dev", TRUE)>>,
     <<Extra(T_x)>>,
     <<Extra(T_z)>>,
     <<Extra(<<>>), Toggle("Write", TRUE)>>}

MatchSearches ==
    {SearchMntopts(r) : r \in MntoptsRequests}
        \cup {SearchSpec(T_sd), SearchSpec(T_t), SearchFile(T_a),
              SearchVfstype(T_fs), SearchFreq("Backup"),
              SearchPassno(PassSome(2))}

NoResult == [ok |-> FALSE, entry |-> NoEntry, err |-> LineError("NotCalled", <<>>)]

---------------------------------------------------------------------------
(* Initial states                                                          *)

IterIdle ==
    /\ nb = 0
    /\ search = NoSearch
    /\ item = NotCalled
    /\ op = "new"
    /\ from = 0
    /\ res = NoResult
    /\ target = <<>>
    /\ ret = NoRet
    /\ matched = FALSE
    /\ submounts = NoSubs
    /\ writable = FALSE
    /\ opened = TRUE

OverlapIdle ==
    /\ list = <<>>
    /\ excl = <<>>
    /\ prev = <<>>
    /\ kept = <<>>
    /\ runs = 0

\* MountIter::new over a mount table of up to MaxLines lines
Init ==
    /\ lines \in SeqsUpTo(TableItems, MaxLines)
    /\ toks = <<>>
    /\ IterIdle
    /\ OverlapIdle

\* MountIter::new over one line, joined from tokens
InitParse ==
    /\ toks \in TokLists
    /\ \E lay \in Layouts : lines = <<Line(Layout(toks, lay))>>
    /\ IterIdle
    /\ OverlapIdle

\* lib.rs: /proc/mounts holding up to MaxLines lines
InitLib ==
    /\ lines \in SeqsUpTo(LibItems, MaxLines)
    /\ toks = <<>>
    /\ IterIdle
    /\ OverlapIdle

\* a parsed entry, and the iterator over its line made by
\* get_mount_search_from with a predicate
InitMatch ==
    /\ toks \in MatchToks
    /\ lines = <<Line(Join(toks, <<SP>>))>>
    /\ res = from_str(lines[1].text)
    /\ \E s \in MatchSearches : search = SomeSearch(s)
    /\ nb = 0
    /\ item = NotCalled
    /\ op = "new"
    /\ from = 0
    /\ target = <<>>
    /\ ret = NoRet
    /\ matched = FALSE
    /\ submounts = NoSubs
    /\ writable = FALSE
    /\ opened = TRUE
    /\ OverlapIdle

\* a list of mounts and the paths to exclude
InitOverlap ==
    /\ lines = <<>>
    /\ toks = <<>>
    /\ IterIdle
    /\ list \in SeqsUpTo(ListEntries, MaxList)
    /\ excl \in ExcludeLists
    /\ prev = <<>>
    /\ kept = <<>>
    /\ runs = 0

---------------------------------------------------------------------------
(* Operations                                                              *)

\* the iterator has been moved into a draining query
Consumed ==
    op \in {"get_mount_from", "get_submounts_from", "get_mount_writable",
            "lib_get_mount"}

iterVars == <<lines, nb, search, item, from, target, ret>>
queryVars == <<matched, submounts, writable, opened>>
overlapVars == <<list, excl, prev, kept, runs>>

\* MountEntry::from_str on the line
FromStr ==
    /\ Len(lines) = 1
    /\ lines[1].readok
    /\ op = "new"
    /\ res' = from_str(lines[1].text)
    /\ op' = "from_str"
    /\ UNCHANGED <<iterVars, toks, overlapVars, queryVars>>

\* MountIter::next
CallNext ==
    /\ op \in {"new", "next", "attach"}
    /\ LET r == NextFrom(lines, search, nb)
       IN  /\ nb' = r.nb
           /\ item' = r.item
    /\ from' = nb
    /\ op' = "next"
    /\ UNCHANGED <<lines, search, toks, res, target, ret, overlapVars, queryVars>>

\* get_mount_search_from / MountIter::new_search_from_existing
AttachSearch ==
    /\ op \in {"new", "next", "attach"}
    /\ \E s \in Searches : search' = SomeSearch(s)
    /\ from' = nb
    /\ op' = "attach"
    /\ UNCHANGED <<lines, nb, item, toks, res, target, ret, overlapVars,
                   queryVars>>

\* get_mount_from(target, iter)
GetMountFrom ==
    /\ op \in {"new", "next", "attach"}
    /\ \E t \in Targets :
          LET d == get_mount_from(t, lines, search, nb)
          IN  /\ target' = t
              /\ nb' = d.nb
              /\ ret' = d.ret
    /\ from' = nb
    /\ op' = "get_mount_from"
    /\ UNCHANGED <<lines, search, item, toks, res, overlapVars, queryVars>>

\* get_submounts_from(root, iter)
GetSubmountsFrom ==
    /\ op \in {"new", "next", "attach"}
    /\ \E r \in Roots :
          \E d \in {get_submounts_from(r, lines, search, nb)} :
              /\ target' = r
              /\ nb' = d.nb
              /\ submounts' = d.ret
    /\ from' = nb
    /\ op' = "get_submounts_from"
    /\ UNCHANGED <<lines, search, item, ret, toks, res, overlapVars, matched,
                   writable, opened>>

\* get_mount_writable(target, writable)
GetMountWritable ==
    /\ op = "new"
    /\ \E t \in Targets, w \in BOOLEAN, openok \in BOOLEAN :
          \E d \in {get_mount_writable(t, w, lines, openok)} :
              /\ target' = t
              /\ writable' = w
              /\ opened' = openok
              /\ nb' = d.nb
              /\ ret' = d.ret
    /\ from' = nb
    /\ op' = "get_mount_writable"
    /\ UNCHANGED <<lines, search, item, toks, res, overlapVars, matched,
                   submounts>>

\* lib.rs get_mount(target)
LibGetMount ==
    /\ op = "new"
    /\ \E t \in LibTargets, openok \in BOOLEAN :
          \E d \in {lib_get_mount(t, lines, openok)} :
              /\ target' = t
              /\ opened' = openok
              /\ nb' = d.nb
              /\ ret' = d.ret
    /\ from' = nb
    /\ op' = "lib_get_mount"
    /\ UNCHANGED <<lines, search, item, toks, res, overlapVars, matched,
                   submounts, writable>>

\* matches(&m, &s) on the parsed entry
Matches ==
    /\ op = "new"
    /\ res.ok
    /\ search.some
    /\ matched' = matches(res.entry, search.s)
    /\ op' = "matches"
    /\ UNCHANGED <<iterVars, toks, res, overlapVars, submounts, writable,
                   opened>>

\* list.remove_overlaps(&excl)
RemoveOverlaps ==
    /\ runs < MaxRuns
    /\ prev' = list
    /\ kept' = KeptPositions(list, excl)
    /\ list' = remove_overlaps(list, excl)
    /\ runs' = runs + 1
    /\ op' = "remove_overlaps"
    /\ UNCHANGED <<iterVars, toks, res, excl, queryVars>>

Next ==
    \/ CallNext
    \/ AttachSearch
    \/ GetMountFrom
    \/ GetSubmountsFrom
    \/ GetMountWritable

NextParse == FromStr \/ CallNext

NextOverlap == RemoveOverlaps

NextMatch == Matches \/ CallNext

NextLib == LibGetMount

Spec == Init /\ [][Next]_vars

SpecParse == InitParse /\ [][NextParse]_vars

SpecOverlap == InitOverlap /\ [][NextOverlap]_vars

SpecMatch == InitMatch /\ [][NextMatch]_vars

SpecLib == InitLib /\ [][NextLib]_vars

---------------------------------------------------------------------------
(* What the claims expect of a token list, stated without the parser       *)

AbsoluteTok(t) == t[1] = "/"

\* the freq tokens that denote the integers 0 and 1
FreqZero == {T_0, T_m0}
FreqOne == {T_1, T_01}

\* the passno tokens that denote 0 and the positive 32-bit integers
PassnoZero == {T_0, T_m0}
PassnoValue(t) ==
    CASE t = T_1 -> 1 [] t = T_2 -> 2 [] t = T_max -> I32Max [] OTHER -> 0

PassnoPositive == {t \in PassnoToks : PassnoValue(t) > 0}

FileValid(ts) == Len(ts) < 2 \/ AbsoluteTok(ts[2])
FreqValid(ts) == Len(ts) < 5 \/ ts[5] \in FreqZero \cup FreqOne
PassnoValid(ts) == Len(ts) < 6 \/ ts[6] \in PassnoZero \cup PassnoPositive

MissingOf(k) ==
    CASE k = 1 -> "MissingSpec" [] k = 2 -> "MissingFile"
      [] k = 3 -> "MissingVfstype" [] k = 4 -> "MissingMntops"
      [] k = 5 -> "MissingFreq" [] k = 6 -> "MissingPassno"

\* the options each mntops token of the inputs stands for
ExpectedOps(t) ==
    CASE t = K_rw -> <<Toggle("Write", TRUE)>>
      [] t = T_rw_comma -> <<Toggle("Write", TRUE)>>
      [] t = T_comma_rw -> <<Extra(<<>>), Toggle("Write", TRUE)>>
      [] t = T_noexec_rw -> <<Toggle("Exec", FALSE), Toggle("Write", TRUE)>>
      [] t = T_ro_x_ro ->
            <<Toggle("Write", FALSE), Extra(T_x), Toggle("Write", FALSE)>>
      [] t = T_ro_nosuid -> <<Toggle("Write", FALSE), Toggle("Suid", FALSE)>>
      [] t = T_all ->
            <<Toggle("Atime", TRUE), Toggle("Atime", FALSE),
              Toggle("DirAtime", TRUE), Toggle("DirAtime", FALSE),
              Toggle("RelAtime", TRUE), Toggle("RelAtime", FALSE),
              Toggle("Dev", TRUE), Toggle("Dev", FALSE),
              Toggle("Exec", TRUE), Toggle("Exec", FALSE),
              Toggle("Suid", TRUE), Toggle("Suid", FALSE),
              Toggle("Write", TRUE), Toggle("Write", FALSE)>>

Parsed == op = "from_str"

---------------------------------------------------------------------------
(* Claims on the line parser, checked under SpecParse                      *)

\* C6: the fields are evaluated left to right and the error is that of the
\* first failing field: with k < 6 tokens and valid present fields the error
\* is the Missing error of field k+1; a relative file is reported whatever
\* follows it, and a bad freq is reported before a missing or bad passno.
C6_FirstFailingField ==
    Parsed =>
        LET k == Len(toks)
        IN  /\ (k < 6 /\ FileValid(toks) /\ FreqValid(toks))
                  => res = Err(LineError(MissingOf(k + 1), <<>>))
            /\ (k >= 2 /\ ~AbsoluteTok(toks[2]))
                  => (~res.ok /\ res.err.kind = "InvalidFilePath")
            /\ (k >= 5 /\ AbsoluteTok(toks[2]) /\ ~FreqValid(toks))
                  => (~res.ok /\ res.err.kind = "InvalidFreq")
            /\ (k >= 6 /\ AbsoluteTok(toks[2]) /\ FreqValid(toks)
                       /\ ~PassnoValid(toks))
                  => (~res.ok /\ res.err.kind = "InvalidPassno")

\* C6 witness: a relative file, a bad freq and no passno: the file is reported
C6_Witness ==
    /\ Parsed
    /\ Len(toks) = 5
    /\ toks[2] = T_none
    /\ toks[5] = T_x
    /\ res.err.kind = "InvalidFilePath"

\* C7: a second token that is not an absolute path gives InvalidFilePath
\* carrying that token, whatever the other fields are; the line with file "/"
\* and valid other fields parses; every entry the parser or the iterator
\* produces has an absolute file.
C7_AbsoluteFile ==
    /\ Parsed =>
          /\ (Len(toks) >= 2 /\ ~AbsoluteTok(toks[2]))
                => res = Err(LineError("InvalidFilePath", toks[2]))
          /\ toks = <<T_sd, T_slash, T_fs, K_rw, T_0, T_0>>
                => (res.ok /\ res.entry.file = T_slash)
          /\ res.ok => res.entry.file[1] = "/"
    /\ item.kind = "Ok" => item.entry.file[1] = "/"
    /\ (op = "next" /\ from = 0 /\ Len(toks) >= 2 /\ ~AbsoluteTok(toks[2]))
          => item = ItemErr(ParseErrorLine(0,
                                LineError("InvalidFilePath", toks[2])))

\* C7 witness: the swap pseudo-mount shape, all other fields valid
C7_Witness ==
    /\ Parsed
    /\ Len(toks) = 6
    /\ toks[2] = T_none
    /\ toks[5] = T_0
    /\ toks[6] = T_0
    /\ res.err = LineError("InvalidFilePath", T_none)

\* C8: with five valid fields before it, the sixth token gives passno None
\* for 0, Some(n) for a positive 32-bit n, and InvalidPassno carrying the
\* token when negative, non-numeric or out of range; no entry has Some(n)
\* with n <= 0.
C8_Passno ==
    Parsed =>
        /\ (Len(toks) >= 6 /\ AbsoluteTok(toks[2]) /\ FreqValid(toks)) =>
              /\ toks[6] \in PassnoZero
                    => (res.ok /\ res.entry.passno = PassNone)
              /\ toks[6] \in PassnoPositive
                    => (res.ok
                        /\ res.entry.passno = PassSome(PassnoValue(toks[6])))
              /\ toks[6] \notin PassnoZero \cup PassnoPositive
                    => res = Err(LineError("InvalidPassno", toks[6]))
        /\ (res.ok /\ res.entry.passno.some) => res.entry.passno.val > 0

\* C8 witness: the token one past the 32-bit range is rejected
C8_Witness ==
    /\ Parsed
    /\ Len(toks) >= 6
    /\ toks[6] = T_over
    /\ res.err = LineError("InvalidPassno", T_over)

\* C9: with four valid fields before it, the fifth token gives freq Ignore
\* for the integer 0 and Backup for the integer 1; any other token gives
\* InvalidFreq carrying the token, before passno is looked at.
C9_Freq ==
    (Parsed /\ Len(toks) >= 5 /\ AbsoluteTok(toks[2])) =>
            /\ toks[5] \in FreqZero =>
                  /\ res.ok => res.entry.freq = "Ignore"
                  /\ res.ok <=> (Len(toks) >= 6 /\ PassnoValid(toks))
            /\ toks[5] \in FreqOne =>
                  /\ res.ok => res.entry.freq = "Backup"
                  /\ res.ok <=> (Len(toks) >= 6 /\ PassnoValid(toks))
            /\ toks[5] \notin FreqZero \cup FreqOne
                  => res = Err(LineError("InvalidFreq", toks[5]))

\* C9 witness: the integer 2 is rejected although passno is missing
C9_Witness ==
    /\ Parsed
    /\ Len(toks) = 5
    /\ AbsoluteTok(toks[2])
    /\ toks[5] = T_2
    /\ res.err = LineError("InvalidFreq", T_2)

\* C10: the mntops token is split on ',' and each piece is mapped in order to
\* its toggle or to Extra(piece); the mapping never makes the line fail, order
\* and duplicates are kept, and one trailing comma adds no option.
C10_Mntops ==
    Parsed =>
        /\ (Len(toks) >= 6 /\ AbsoluteTok(toks[2]) /\ FreqValid(toks)
                           /\ PassnoValid(toks)) => res.ok
        /\ res.ok => res.entry.mntops = ExpectedOps(toks[4])

\* C10 witness: "rw," parsed to exactly [Write(true)]
C10_Witness ==
    /\ Parsed
    /\ res.ok
    /\ toks[4] = T_rw_comma
    /\ res.entry.mntops = <<Toggle("Write", TRUE)>>

---------------------------------------------------------------------------
(* Claims on the iterator and the queries, checked under Spec              *)

\* line j of the source, read and parsed on its own
ReadsOk(j) == lines[j].readok
ParsesOk(j) == ReadsOk(j) /\ from_str(lines[j].text).ok
EntryAt(j) == from_str(lines[j].text).entry

ErrorFree == \A j \in 1..Len(lines) : ParsesOk(j)

\* line j is one the iterator yields to its caller
Yielded(j) == ~search.some \/ matches(EntryAt(j), search.s)

\* the lines the last query saw whose file is an ancestor-or-equal of target
Ancestors ==
    {j \in (from + 1)..Len(lines) :
        ParsesOk(j) /\ Yielded(j) /\ StartsWith(target, EntryAt(j).file)}

Depth(path) == Len(Components(path))

\* C1: on an error-free table get_mount_from returns the entry whose file is
\* the deepest ancestor-or-equal of the target, and none only when no entry's
\* file is an ancestor-or-equal of it.
C1_LongestPrefix ==
    (op = "get_mount_from" /\ ErrorFree) =>
        /\ ret.kind = "Ok"
        /\ ret.some <=> Ancestors # {}
        /\ ret.some =>
              \E j \in Ancestors :
                  /\ ret.entry = EntryAt(j)
                  /\ \A h \in Ancestors :
                        Depth(EntryAt(h).file) <= Depth(EntryAt(j).file)

\* the last call of next started right after a failed read was yielded
AfterReadFailure == op = "next" /\ from >= 1 /\ ~ReadsOk(from)

\* C4 as stated: once next has yielded the error of a failed read, every
\* later call returns end-of-sequence and consumes no further line.
C4_StopsAfterReadFailure ==
    AfterReadFailure => (item.kind = "End" /\ nb = from)

\* C4 as amended: a failed read is yielded as an error and consumes that one
\* line only; the call after it goes on with the following line, and returns
\* end-of-sequence only when the line source is exhausted.
C4_ResumesAfterReadFailure ==
    /\ (op = "next" /\ nb > from /\ ~ReadsOk(nb))
          => item = ItemErr(ParseErrorIo)
    /\ AfterReadFailure =>
          /\ from < Len(lines) => nb > from
          /\ item.kind = "End" => nb = Len(lines)
          /\ from = Len(lines) => item.kind = "End"
          /\ (from < Len(lines) /\ ~search.some)
                => (nb = from + 1 /\ item.kind # "End")

\* C4 witness: the call after a failed read has yielded the next line's entry
C4_Witness ==
    /\ AfterReadFailure
    /\ item.kind = "Ok"
    /\ nb = from + 1

\* the lines the last call of next passed over without yielding them
Skipped == (from + 1)..(IF item.kind = "End" THEN nb ELSE nb - 1)

\* C5: with a Search attached, every call of next yields only matching
\* entries, passes over exactly lines that read, parse and do not match, and
\* yields the first line that fails to read or parse as an error where it is
\* met.
C5_SearchNeverSkipsErrors ==
    (op = "next" /\ search.some) =>
        /\ \A j \in Skipped : ParsesOk(j) /\ ~matches(EntryAt(j), search.s)
        /\ item.kind \in {"Ok", "Err", "End"}
        /\ item.kind = "Ok" =>
              /\ nb > from
              /\ ParsesOk(nb)
              /\ item.entry = EntryAt(nb)
              /\ matches(item.entry, search.s)
        /\ item.kind = "Err" =>
              /\ nb > from
              /\ ~ParsesOk(nb)
              /\ item.perr = IF ReadsOk(nb)
                             THEN ParseErrorLine(nb - 1,
                                      from_str(lines[nb].text).err)
                             ELSE ParseErrorIo
        /\ item.kind = "End" => nb = Len(lines)

\* C5 witness: a call passed over a non-matching line and then yielded the
\* parse error of a malformed line
C5_Witness ==
    /\ op = "next"
    /\ search.some
    /\ nb >= from + 2
    /\ item.kind = "Err"
    /\ item.perr.src = "line"

---------------------------------------------------------------------------
(* Claims on remove_overlaps, checked under SpecOverlap                    *)

InExcluded(file) == \E j \in 1..Len(excl) : PathEq(file, excl[j])

KeptSet == {kept[j] : j \in 1..Len(kept)}

\* C2: remove_overlaps on its own output, with the same excluded paths,
\* returns that output unchanged.
C2_Idempotent == runs >= 2 => list = prev

\* C2 witness: a second run on a result of two or more mounts, with
\* excluded paths in play
C2_Witness ==
    /\ runs = 2
    /\ Len(list) >= 2
    /\ excl # <<>>
    /\ \E j \in 1..Len(list) : InExcluded(list[j].file)

\* C3: an entry is kept exactly when its file is not "/" and no kept, later
\* entry whose file is not excluded is an ancestor-or-equal of it; so no "/"
\* entry is in the result and an excluded kept path drops nothing.
C3_KeptExactly ==
    runs >= 1 =>
        /\ \A i \in 1..Len(prev) :
              i \in KeptSet <=>
                  /\ ~PathEq(prev[i].file, ROOT)
                  /\ ~\E k \in KeptSet :
                        /\ k > i
                        /\ StartsWith(prev[i].file, prev[k].file)
                        /\ ~InExcluded(prev[k].file)
        /\ Len(list) = Len(kept)
        /\ \A j \in 1..Len(list) :
              /\ list[j] = prev[kept[j]]
              /\ list[j].file # T_slash

\* C3 witness: a kept entry lies under a later kept entry whose path is
\* excluded, and a "/" entry of the input was dropped although "/" is excluded
C3_Witness ==
    /\ runs = 1
    /\ \E i \in KeptSet : \E k \in KeptSet :
          /\ k > i
          /\ prev[i].file # prev[k].file
          /\ StartsWith(prev[i].file, prev[k].file)
          /\ InExcluded(prev[k].file)
    /\ \E i \in 1..Len(prev) : prev[i].file = T_slash /\ i \notin KeptSet

\* the line made of the first six tokens with single spaces between them
FirstSix == SubSeq(toks, 1, IF Len(toks) < 6 THEN Len(toks) ELSE 6)
Canonical == Join(FirstSix, <<SP>>)

\* C16: the result of parsing a line, entry or error, is that of the line
\* made of its first six tokens separated by single spaces: the separators'
\* length and kind, leading and trailing white space and tokens after the
\* sixth do not change it.
C16_FirstSixTokens ==
    Parsed =>
        /\ res = from_str(Canonical)
        /\ res = FromTokens(FirstSix)

\* C16 witness: a line of seven tokens that starts with tabs, has mixed
\* separators and trailing spaces parsed to an entry
C16_Witness ==
    /\ Parsed
    /\ res.ok
    /\ Len(toks) = 7
    /\ lines[1].text[1] = TAB
    /\ lines[1].text[Len(lines[1].text)] = SP
    /\ lines[1].text # Canonical

\* the lines the last query was handed
Rest == (from + 1)..Len(lines)
Failing == {j \in Rest : ~ParsesOk(j)}
FirstFailing == CHOOSE j \in Failing : \A k \in Failing : j <= k
ErrorAt(j) ==
    IF ReadsOk(j) THEN ParseErrorLine(j - 1, from_str(lines[j].text).err)
    ELSE ParseErrorIo

\* the lines whose entry is at target or beneath it, and the k-th of them
Beneath ==
    {j \in Rest :
        ParsesOk(j) /\ Yielded(j) /\ StartsWith(EntryAt(j).file, target)}
NthBeneath(k) ==
    CHOOSE j \in Beneath : Cardinality({i \in Beneath : i <= j}) = k

\* C12: get_submounts_from returns, when every line reads and parses, exactly
\* the entries at root or beneath it, in source order with duplicates kept
\* (all of them for root "/"); otherwise the error of the first failing line
\* and no list.
C12_Submounts ==
    op = "get_submounts_from" =>
        /\ nb <= Len(lines)
        /\ Failing = {} =>
              /\ submounts.kind = "Ok"
              /\ nb = Len(lines)
              /\ Len(submounts.list) = Cardinality(Beneath)
              /\ \A k \in 1..Len(submounts.list) :
                    submounts.list[k] = EntryAt(NthBeneath(k))
              /\ (target = T_slash /\ ~search.some)
                    => Len(submounts.list) = Len(lines) - from
        /\ Failing # {} =>
              /\ submounts = SubsErr(ErrorAt(FirstFailing))
              /\ submounts.list = <<>>
              /\ nb = FirstFailing

\* C12 witness: three lines, the root line between two equal lines mounted
\* on /a, and the list for /a/ holds the two equal entries
C12_Witness ==
    /\ op = "get_submounts_from"
    /\ from = 0
    /\ ~search.some
    /\ Len(lines) = 3
    /\ target = T_aslash
    /\ submounts.kind = "Ok"
    /\ Len(submounts.list) = 2
    /\ submounts.list[1] = submounts.list[2]
    /\ EntryAt(2).file = T_slash

\* the lines after position from that end a call of next: a line that
\* fails, or one whose entry is yielded
Producing == {j \in Rest : ~ParsesOk(j) \/ Yielded(j)}
FirstProducing == CHOOSE j \in Producing : \A k \in Producing : j <= k

\* C15: attaching a Search consumes no line; a call of next consumes the
\* lines up to and including the one that produced its result and none
\* after it; no operation goes back in the line source.
C15_LazySinglePass ==
    /\ from <= nb
    /\ nb <= Len(lines)
    /\ op = "attach" => nb = from
    /\ op = "next" =>
          /\ Producing # {} =>
                (nb = FirstProducing /\ item.kind \in {"Ok", "Err"})
          /\ Producing = {} => (nb = Len(lines) /\ item.kind = "End")

\* C15 witness: a search passed over one line, yielded the matching entry of
\* the next and left the last line of the table unread
C15_Witness ==
    /\ op = "next"
    /\ search.some
    /\ item.kind = "Ok"
    /\ from = 0
    /\ nb = 2
    /\ Len(lines) = 3

\* the last call of next met a line that was read and did not parse
ParseFailed == op = "next" /\ nb > from /\ ReadsOk(nb) /\ ~ParsesOk(nb)

\* C18 as stated: the error of a line that fails to parse is tagged with the
\* line's number and the trimmed raw line.
C18_CarriesRawLine ==
    ParseFailed =>
        /\ item.kind = "Err"
        /\ item.perr.src = "line"
        /\ Quoted(item.perr) = Trim(lines[nb].text)

\* C18 as amended: the error is tagged with the line's position in the
\* source counted from zero over every line consumed (yielded, passed over
\* by a predicate, consumed before the predicate was attached, failed to
\* read) and with the LineError, which holds the offending token of the
\* line or nothing, never the whole line.
C18_NumberAndLineError ==
    ParseFailed =>
        /\ item.kind = "Err"
        /\ item.perr.src = "line"
        /\ item.perr.nb = nb - 1
        /\ lines[nb].text = L_swap
              => item.perr.err = LineError("InvalidFilePath", T_none)
        /\ \/ Quoted(item.perr) = <<>>
           \/ \E k \in 1..Len(Tokens(lines[nb].text)) :
                 Quoted(item.perr) = Tokens(lines[nb].text)[k]
        /\ Quoted(item.perr) # Trim(lines[nb].text)

\* C18 witness: one line was consumed before the predicate was attached, the
\* next was passed over, and the third failed to parse: its number is 2
C18_Witness ==
    /\ ParseFailed
    /\ search.some
    /\ from = 1
    /\ nb = 3
    /\ item.perr = ParseErrorLine(2, LineError("InvalidFilePath", T_none))

\* the entry the lookup of get_mount finds: the last one at or above target
LastAncestor == CHOOSE j \in Ancestors : \A k \in Ancestors : k <= j
HasWriteTrue(m) ==
    \E k \in 1..Len(m.mntops) : m.mntops[k] = Toggle("Write", TRUE)

\* C14: get_mount_writable never yields an error: it returns none when the
\* lookup fails to open, read or parse or finds no entry, the entry found
\* when writable is false, and with writable true the entry found only when
\* its options hold Write(true), none otherwise.
C14_Writable ==
    op = "get_mount_writable" =>
        /\ ret.kind = "Option"
        /\ ret.perr = NoParseError
        /\ (~opened \/ Failing # {}) => ~ret.some
        /\ (opened /\ Failing = {} /\ Ancestors = {}) => ~ret.some
        /\ (opened /\ Failing = {} /\ Ancestors # {}) =>
              /\ ~writable => ret = RetOption(Some(EntryAt(LastAncestor)))
              /\ writable =>
                    /\ ret.some <=> HasWriteTrue(EntryAt(LastAncestor))
                    /\ ret.some => ret.entry = EntryAt(LastAncestor)

\* C14 witness: a writable lookup that found a read-only entry after a
\* read-write one above the target returned none
C14_Witness ==
    /\ op = "get_mount_writable"
    /\ writable
    /\ opened
    /\ Failing = {}
    /\ Cardinality(Ancestors) = 2
    /\ \E j \in Ancestors : HasWriteTrue(EntryAt(j))
    /\ ~HasWriteTrue(EntryAt(LastAncestor))
    /\ ~ret.some

\* C19: on an error-free table get_mount_from returns the entry that is last
\* in source order among those whose file is an ancestor-or-equal of the
\* target, whatever the depth of the paths, and none when there is no such
\* entry.
C19_LastAncestor ==
    (op = "get_mount_from" /\ Failing = {}) =>
        /\ ret.kind = "Ok"
        /\ nb = Len(lines)
        /\ ret.some <=> Ancestors # {}
        /\ ret.some => ret.entry = EntryAt(LastAncestor)

\* C19 witness: a "/" line after a deeper mount above the target is the
\* answer
C19_Witness ==
    /\ op = "get_mount_from"
    /\ Failing = {}
    /\ ret.some
    /\ ret.entry.file = T_slash
    /\ \E j \in Ancestors :
          /\ j < LastAncestor
          /\ Depth(EntryAt(j).file) > Depth(ret.entry.file)

---------------------------------------------------------------------------
(* More claims on remove_overlaps, checked under SpecOverlap               *)

\* the k-th smallest position of a set of positions
NthOf(S, k) == CHOOSE j \in S : Cardinality({i \in S : i <= j}) = k

\* list is prev restricted to the positions S, in the order of prev
IsSelection(S) ==
    /\ Len(list) = Cardinality(S)
    /\ \A k \in 1..Len(list) : list[k] = prev[NthOf(S, k)]

\* C17: the result of remove_overlaps is a subsequence of its input: the
\* entries at some set of positions of the input, unmodified, each once and
\* in the input's order; an empty input gives an empty result.
C17_Subsequence ==
    runs >= 1 =>
        /\ \E S \in SUBSET (1..Len(prev)) : IsSelection(S)
        /\ IsSelection(KeptSet)
        /\ \A j \in 1..Len(kept) : kept[j] \in 1..Len(prev)
        /\ \A j \in 1..(Len(kept) - 1) : kept[j] < kept[j + 1]
        /\ prev = <<>> => list = <<>>

\* C17 witness: of four entries the result holds two different ones that
\* were not neighbours in the input
C17_Witness ==
    /\ runs = 1
    /\ Len(prev) = 4
    /\ Len(list) = 2
    /\ list[1] # list[2]
    /\ kept[1] + 1 < kept[2]

\* entry k of the input shadows entry i: it is later, not "/", not excluded
\* and at the path of i or above it
Shadows(k, i) ==
    /\ k > i
    /\ Components(prev[k].file) # <<ROOT>>
    /\ ~InExcluded(prev[k].file)
    /\ StartsWith(prev[i].file, prev[k].file)

\* C20: an entry is in the result of remove_overlaps exactly when its file is
\* not "/" and no later entry of the input, kept or not, shadows it; with
\* nothing excluded only the last of the entries at one path survives and no
\* output entry has a later output entry at its path or above.
C20_AllLaterEntries ==
    runs >= 1 =>
        /\ \A i \in 1..Len(prev) :
              i \in KeptSet <=>
                  /\ Components(prev[i].file) # <<ROOT>>
                  /\ ~\E k \in 1..Len(prev) : Shadows(k, i)
        /\ excl = <<>> =>
              /\ \A i, k \in 1..Len(prev) :
                    (i < k /\ PathEq(prev[i].file, prev[k].file))
                        => i \notin KeptSet
              /\ \A a, b \in 1..Len(list) :
                    a < b => ~StartsWith(list[a].file, list[b].file)

\* C20 witness: an entry was dropped, and so was a later entry that shadows
\* it from a path strictly above
C20_Witness ==
    /\ runs = 1
    /\ \E i, k \in 1..Len(prev) :
          /\ i \notin KeptSet
          /\ k \notin KeptSet
          /\ Shadows(k, i)
          /\ Components(prev[i].file) # Components(prev[k].file)

---------------------------------------------------------------------------
(* Claims on get_mount of lib.rs, checked under SpecLib                    *)

\* the lines whose file has the same components as target
Exact ==
    {j \in Rest :
        ParsesOk(j) /\ Components(EntryAt(j).file) = Components(target)}
LastExact == CHOOSE j \in Exact : \A k \in Exact : k <= j

---------------------------------------------------------------------------
(* Claims on matches, checked under SpecMatch                              *)

\* every requested option occurs somewhere among the options the entry's
\* mntops token stands for
Requested == search.s.ops
Present == ExpectedOps(toks[4])
AllRequestedPresent ==
    \A i \in 1..Len(Requested) : \E j \in 1..Len(Present) :
        Present[j] = Requested[i]

\* C11: matches with Search::Mntopts(req) is true exactly when every requested
\* option occurs among the entry's options, whatever the order, the
\* duplicates and the entry's other options; an empty request matches.
C11_MntoptsSuperset ==
    search.s.kind = "Mntopts" =>
        /\ op = "matches" => (matched <=> AllRequestedPresent)
        /\ (op = "next" /\ from = 0)
              => (item.kind = "Ok" <=> AllRequestedPresent)
        /\ (op = "matches" /\ Requested = <<>>) => matched

\* C11 witness: a request in another order than the entry's options, with a
\* duplicate-free entry holding more than was asked, matched
C11_Witness ==
    /\ op = "matches"
    /\ matched
    /\ toks[4] = T_all
    /\ Requested = <<Toggle("Exec", FALSE), Toggle("Write", TRUE),
                     Toggle("Dev", TRUE)>>

=============================================================================
